---- MODULE Spec2Model ----
(***************************************************************************)
(* Model of the work-mate-server request handlers that read and write the  *)
(* users, likes, workplaces and messages collections: the JWT middleware,  *)
(* the like and unlike routes and the liked listings, account deletion     *)
(* with its cascade, join and OAuth login, the message routes, work place  *)
(* creation and deletion, and the migration of the legacy like arrays.     *)
(* Every await on a store call is one atomic step of a request; the        *)
(* synchronous code between two awaits belongs to the earlier step.        *)
(***************************************************************************)
EXTENDS Integers, Sequences, FiniteSets, Bags, TLC

\* ------------------------------------------------------------------ bounds
NumUsers == 2
\* requests that may be in flight at the same time
MaxInFlight == 2
\* requests received in a run of overlapping requests
MaxRaceRequests == 2
\* requests received in a run of requests handled one after the other
MaxRequests == 3
\* requests received in a run that records what the middleware did
MaxAuthRequests == 1
\* join and login requests received in a run where they overlap
MaxRaceLogins == 2
\* join and login requests received in a run where they come one by one
MaxLogins == 1
\* requests to the message routes received in a run
MaxMailRequests == 3
\* requests to the work place routes received in a run
MaxPlaceRequests == 3
\* like edges in the store when the listings are requested
MaxEdges == 2
\* largest page and largest limit a listing request asks for
MaxPage == 3
MaxLimit == 2
\* runs of migrateUserLikes that are cut short before one completes
MaxStops == 1
\* join and login requests received in a run that compares two of them
MaxPairLogins == 2
\* hours between the Unix epoch and the issue of the tokens presented; a real
\* clock is far later
EpochHours == 1

Users == 1..NumUsers
None == 0

\* The two spellings of one ObjectId in a URL parameter: toString() always
\* yields lower-case hex, the ObjectId constructor accepts either case.
Forms == {"lower", "upper"}
Params == Users \X Forms
Ops == {"like", "unlike", "delete", "createWorkPlace"}

VARIABLES
  users,          \* ids of the documents of the users collection
  likedCount,     \* users.likedCount
  likedByCount,   \* users.likedByCount
  likes,          \* number of documents of likes per (fromUserId, toUserId)
  workplaces,     \* documents of the workplaces collection: [id, userId]
  nextPlaceId,    \* next ObjectId the store hands out for a work place
  requests,       \* bag of the requests in flight, each a record of
                  \*   pc            the await the handler is at
                  \*   op            the route
                  \*   reqUser       req.user._id
                  \*   target        new ObjectId(req.params.targetUserId)
                  \*   likesGiven    deleteByUserId's likesGiven, per toUserId
                  \*   likesReceived deleteByUserId's likesReceived, per fromUserId
  lastStatus,     \* HTTP status of the response sent last, 0 before the first
  started,        \* number of requests received so far
  mode,           \* "conc": requests overlap; "seq": one request at a time;
                  \* "auth": one request at a time, mw is recorded;
                  \* "logins": join and login requests overlap;
                  \* "loginSeq": join and login requests one at a time;
                  \* "loginPair": the same, with the login before on record
  hist,           \* in mode "seq": cur, the request that runs or ran last
                  \* with the store as it arrived (pre) and the last
                  \* Set-Cookie of its response for auth_token (resCookie),
                  \* and prevLike: when the request before cur was a like
                  \* answered 200, its sender, its target and the counters
                  \* as it arrived
  mw,             \* in mode "auth": the token and the time of the request
                  \* received last, the users as it arrived, and what
                  \* authenticateJWT did with it
  accounts,       \* per user id, the identity fields of the user document:
                  \*   email, name, profileImage, githubId, googleId,
                  \*   updatedAt, lastLoginAt
  idHist,         \* in mode "loginSeq": the join or login request that runs
                  \* or ran last, the users and accounts as it arrived
                  \* (pre), the user it ended with and the cookie it set
  messages,       \* documents of the messages collection
  mailHist,       \* in mode "mail": the message request that runs or ran
                  \* last (wellFormed: its ids are valid ObjectIds and a
                  \* send has subject and content), the messages as it
                  \* arrived (pre), its status and the message in its
                  \* response body
  placeHist,      \* in mode "places": the work place request that runs or
                  \* ran last (wellFormed: its id is a valid ObjectId) and
                  \* the work places as it arrived (pre)
  likeLog,        \* in mode "listing": the documents of likes as
                  \* <<fromUserId, toUserId>> in the order of createdAt
  listing,        \* in mode "listing": the listing request answered last,
                  \* page and limit of its query (0: absent or "0") and
                  \* the users and hasMore of its response
  mig             \* in mode "migrate": the legacy arrays likedUsers and
                  \* likedByUsers per user (present: the user document
                  \* still has them), and the run of migrateUserLikes:
                  \* its position pc, the users it still has to process
                  \* (remaining), the user in work, the entries of that
                  \* user's likedUsers not yet inserted (todo), its local
                  \* likedCount, and how often a run was cut short

vars == <<users, likedCount, likedByCount, likes, workplaces, nextPlaceId,
          requests, lastStatus, started, mode, hist, mw, accounts, idHist,
          messages, mailHist, placeHist, likeLog, listing, mig>>

stores == <<users, likedCount, likedByCount, likes, workplaces, nextPlaceId>>

identity == <<accounts, idHist>>

others == <<messages, mailHist, placeHist, likeLog, listing, mig>>

\* ----------------------------------------------------------------- helpers
\* ObjectId.prototype.toString: lower-case hex
toString(id) == <<id, "lower">>

\* new ObjectId(hexString): case-insensitive parse
ObjectId(param) == param[1]

Pairs == Users \X Users

NoLikes == [e \in Pairs |-> 0]

Zero == [u \in Users |-> 0]

Sum(f) == LET S[n \in 0..NumUsers] == IF n = 0 THEN 0 ELSE S[n - 1] + f[n]
          IN S[NumUsers]

\* LikeModel.getLikeCount: countDocuments({ fromUserId })
getLikeCount(l, u) == Sum([t \in Users |-> l[<<u, t>>]])

\* LikeModel.getLikedByCount: countDocuments({ toUserId })
getLikedByCount(l, u) == Sum([f \in Users |-> l[<<f, u>>]])

Snapshot == [users |-> users, likedCount |-> likedCount,
             likedByCount |-> likedByCount, likes |-> likes,
             workplaces |-> workplaces]

\* no request: the value of hist.cur before a request ran
NoReq == [op |-> "none", cookie |-> None, user |-> None, target |-> 1,
          status |-> 0, resCookie |-> "none",
          pre |-> [users |-> Users, likedCount |-> Zero,
                   likedByCount |-> Zero, likes |-> NoLikes,
                   workplaces |-> {}]]

\* the value of hist.prevLike when the request before was no like answered 200
NoLike == [user |-> None, target |-> 1, likedCount |-> Zero,
           likedByCount |-> Zero]

InFlight == BagToSet(requests)

Quiescent == requests = EmptyBag

\* the request r is at the await pc of the route op
At(r, o, label) == r \in InFlight /\ r.op = o /\ r.pc = label

\* res.status(code).json(...): the response is sent and the request is over;
\* cleared is whether the route called res.clearCookie
RespondWith(r, code, cleared) ==
  /\ requests' = requests (-) SetToBag({r})
  /\ lastStatus' = code
  /\ hist' = IF mode = "seq"
             THEN [hist EXCEPT !.cur.status = code,
                               !.cur.resCookie =
                                  IF cleared THEN "cleared" ELSE @]
             ELSE hist

Respond(r, code) == RespondWith(r, code, FALSE)

\* the handler goes on as r2
Continue(r, r2) ==
  /\ requests' = (requests (-) SetToBag({r})) (+) SetToBag({r2})
  /\ UNCHANGED <<lastStatus, hist>>

\* the handler goes on to its next await
Goto(r, label) == Continue(r, [r EXCEPT !.pc = label])

\* ------------------------------------------------------------- middleware
\* UserModel.findById: the document with that _id, or null
UserModel_findById(id) == IF id \in users THEN id ELSE None

\* authenticateJWT without the lookup of the user the token names
ResolveUser_noLookup(c) == c

\* authenticateJWT: no token, or a token whose user is gone, is anonymous
ResolveUser(c) == IF c = None THEN None ELSE UserModel_findById(c)

\* ------------------------------------------------------------------ tokens
\* Time is counted in hours since the Unix epoch.
\* Date.now(): milliseconds since the epoch
Date_now(hour) == hour * (60 * 60 * 1000)

\* jsonwebtoken's clock, Math.floor(Date.now() / 1000): seconds since the epoch
clockTimestamp(hour) == Date_now(hour) \div 1000

\* const twoHoursInMs = 2 * 60 * 60 * 1000
twoHoursInMs == 2 * 60 * 60 * 1000

\* const expiresIn = "24h": the span jsonwebtoken adds, in seconds
expiresIn == 24 * 60 * 60

\* no auth_token cookie in the request, none set on the response
NoToken == [kind |-> "none", userId |-> None, iat |-> 0, exp |-> 0]

\* jwt.sign(payload, JWT_SECRET, { expiresIn }): a payload that brings its own
\* iat keeps it, and exp is that iat plus the span in seconds
jwt_sign(payload, span) ==
  [kind |-> "signed", userId |-> payload.userId, iat |-> payload.iat,
   exp |-> payload.iat + span]

\* generateToken: payload { userId, iat: Date.now() }, signed for "24h"
generateToken(userId, hour) ==
  jwt_sign([userId |-> userId, iat |-> Date_now(hour)], expiresIn)

\* the cookies a request may carry: none, a string that is no JWT, a JWT
\* signed with another secret, a JWT of this secret whose exp has passed,
\* and the tokens generateToken issued at hour EpochHours
Tokens ==
  {NoToken}
  \cup {[NoToken EXCEPT !.kind = k] :
          k \in {"malformed", "badSignature", "expired"}}
  \cup {generateToken(u, EpochHours) : u \in Users}

\* hours a token is presented after its issue
ElapsedHours == {0, 2, 3, 24, 25}

Hours == {EpochHours + e : e \in ElapsedHours}

\* The route handlers see only req.user. Where the routes are followed, the
\* requests carry no cookie or a token of this server, presented in the hour
\* of its issue or three hours later (not renewed); where the middleware
\* itself is followed (mode "auth"), every cookie at every hour.
RouteElapsedHours == {0, 3}

RequestTokens(m) ==
  IF m = "auth" THEN Tokens
  ELSE {NoToken} \cup {generateToken(u, EpochHours) : u \in Users}

RequestHours(m) ==
  IF m = "auth" THEN Hours ELSE {EpochHours + e : e \in RouteElapsedHours}

\* jwt.verify(token, JWT_SECRET): throws (ok FALSE) for a malformed token, a
\* bad signature, and when the clock in seconds has reached exp; else the
\* payload
jwt_verify(token, hour) ==
  IF token.kind # "signed" \/ clockTimestamp(hour) >= token.exp
  THEN [ok |-> FALSE, userId |-> None, iat |-> 0]
  ELSE [ok |-> TRUE, userId |-> token.userId, iat |-> token.iat]

\* req.user = undefined; req.isAuthenticated = () => false; next()
Anonymous(decoded) ==
  [tokenUser |-> decoded.userId, user |-> None, isAuthenticated |-> FALSE,
   nextCalls |-> 1, status |-> 0, setCookie |-> NoToken]

\* a middleware that renews every token it accepts
Renewal_always(decoded, hour) == generateToken(decoded.userId, hour)

\* if (currentTime - tokenIssuedAt <= twoHoursInMs) setCookieWithToken(...):
\* the auth_token cookie the middleware sets, if any
Renewal(decoded, hour) ==
  IF Date_now(hour) - decoded.iat <= twoHoursInMs
  THEN generateToken(decoded.userId, hour)
  ELSE NoToken

\* authenticateJWT once jwt.verify returned: findById, renewal, next()
Resolved(decoded, hour) ==
  LET user == ResolveUser(decoded.userId)
  IN IF user = None THEN Anonymous(decoded)
     ELSE [tokenUser |-> decoded.userId, user |-> user,
           isAuthenticated |-> TRUE, nextCalls |-> 1, status |-> 0,
           setCookie |-> Renewal(decoded, hour)]

\* a middleware that answers 401 itself when jwt.verify throws
Authenticate_strict(token, hour) ==
  IF token.kind = "none" THEN Anonymous(NoToken)
  ELSE LET decoded == jwt_verify(token, hour)
       IN IF ~decoded.ok
          THEN [Anonymous(decoded) EXCEPT !.nextCalls = 0, !.status = 401]
          ELSE Resolved(decoded, hour)

\* authenticateJWT from the cookie to next(): what it leaves on the request
\* and the response; an exception of jwt.verify or findById ends in the catch
Authenticate(token, hour) ==
  IF token.kind = "none" THEN Anonymous(NoToken)
  ELSE LET decoded == jwt_verify(token, hour)
       IN IF ~decoded.ok THEN Anonymous(decoded)
          ELSE Resolved(decoded, hour)

\* the value of mw before a request ran
NoMw == [token |-> NoToken, hour |-> EpochHours, users |-> Users,
         did |-> Anonymous(NoToken)]

\* ---------------------------------------------------------------- accounts
\* email addresses are numbered; the empty string is 0
NoEmail == 0

Emails == 1..NumUsers

Names == {"Kim", "Lee"}

\* profile.id of an OAuth profile
ProviderIds == {"p1", "p2"}

\* an optional string field that is not set
Absent == "-"

\* profile.photos?.[0]?.value: undefined or a URL
Avatars == {Absent, "pic"}

\* new Date(): the requests received so far serve as the clock
Now == started

\* UserModel.create: the identity fields of the document it inserts
NewAccount(email, name, profileImage, githubId, googleId) ==
  [email |-> email, name |-> name, profileImage |-> profileImage,
   githubId |-> githubId, googleId |-> googleId,
   updatedAt |-> Now, lastLoginAt |-> None]

\* the account of a user that joined with email u and never logged in
Manual(u) == [email |-> u, name |-> "Kim", profileImage |-> Absent,
              githubId |-> Absent, googleId |-> Absent,
              updatedAt |-> 0, lastLoginAt |-> None]

\* the value of accounts[u] while no document has _id u
NoAccount == [email |-> NoEmail, name |-> "", profileImage |-> Absent,
              githubId |-> Absent, googleId |-> Absent,
              updatedAt |-> 0, lastLoginAt |-> None]

\* no earlier login: the value of idHist.first before a second login arrives
NoFirst == [op |-> "none", pid |-> Absent, user |-> None, fresh |-> FALSE]

\* the value of idHist before a request ran
NoLogin == [op |-> "none", email |-> NoEmail, name |-> "", pid |-> Absent,
            avatar |-> Absent, status |-> 0, user |-> None,
            cookie |-> NoToken, first |-> NoFirst,
            pre |-> [users |-> {}, accounts |-> [u \in Users |-> NoAccount],
                     likedCount |-> Zero, likedByCount |-> Zero]]

\* the users whose email was the request's when it arrived
EmailMatches ==
  {u \in idHist.pre.users : idHist.pre.accounts[u].email = idHist.email}

\* the users whose githubId (googleId) was the profile's id when the login
\* arrived
ProviderMatches ==
  {u \in idHist.pre.users :
     IF idHist.op = "github" THEN idHist.pre.accounts[u].githubId = idHist.pid
     ELSE idHist.pre.accounts[u].googleId = idHist.pid}

\* what idHist.first keeps of the login that has just been answered; fresh:
\* it was an OAuth login answered with a user, and on its arrival its
\* provider id matched no account and its email was absent or matched none
FirstLogin ==
  [op |-> idHist.op, pid |-> idHist.pid, user |-> idHist.user,
   fresh |-> /\ idHist.op \in {"github", "google"}
             /\ idHist.status = 200
             /\ ProviderMatches = {}
             /\ idHist.email = NoEmail \/ EmailMatches = {}]

\* ---------------------------------------------------------------- messages
\* req.body.subject and req.body.content: absent (or empty) or given
Texts == {"", "hello"}

\* no message: the value findById yields for an _id without a document
NoMessage == [id |-> None, fromUserId |-> None, targetUserId |-> None,
              toUserEmail |-> NoEmail, subject |-> "", content |-> "",
              isRead |-> FALSE, readAt |-> 0, updatedAt |-> 0]

\* no message request: the value of mailHist before a request ran
NoMail == [op |-> "none", user |-> None, target |-> <<1, "lower">>,
           id |-> None, wellFormed |-> FALSE, status |-> 0,
           body |-> NoMessage, pre |-> {}]

\* no work place: the value findById yields for an _id without a document
NoPlace == [id |-> None, userId |-> None]

\* no work place request: the value of placeHist before a request ran
NoPlaceReq == [op |-> "none", user |-> None, id |-> None,
               wellFormed |-> FALSE, pre |-> {}]

\* no listing request: the value of listing before a request ran
NoListing == [op |-> "none", user |-> None, page |-> 0, limit |-> 0,
              status |-> 0, users |-> <<>>, hasMore |-> FALSE]

\* no legacy arrays and no migration run
NoMigration == [likedUsers |-> [u \in Users |-> {}],
                likedByUsers |-> [u \in Users |-> {}],
                present |-> {}, pc |-> "idle", remaining |-> {},
                user |-> None, todo |-> {}, likedCount |-> 0, stops |-> 0]

\* ------------------------------------------------------------------- Init
InitStores == /\ users = Users
              /\ likedCount = Zero
              /\ likedByCount = Zero
              /\ likes = NoLikes
              /\ workplaces = {}
              /\ nextPlaceId = 1

InitIdle == /\ requests = EmptyBag
            /\ lastStatus = 0
            /\ started = 0
            /\ hist = [cur |-> NoReq, prevLike |-> NoLike]
            /\ mw = NoMw
            /\ idHist = NoLogin
            /\ messages = {}
            /\ mailHist = NoMail
            /\ placeHist = NoPlaceReq
            /\ listing = NoListing

InitRequests == InitIdle /\ likeLog = <<>> /\ mig = NoMigration

\* the users of the runs about likes, work places and tokens joined by email
InitAccounts == accounts = [u \in Users |-> Manual(u)]

Init == InitStores /\ InitRequests /\ InitAccounts /\ mode = "conc"

InitSeq == InitStores /\ InitRequests /\ InitAccounts /\ mode = "seq"

\* users 1 and 2 like each other
Mutual == [e \in Pairs |-> IF e \in {<<1, 2>>, <<2, 1>>} THEN 1 ELSE 0]

\* A run that starts with the stores as earlier requests left them: still
\* empty, or users 1 and 2 like each other and user 1 owns a work place, or
\* the last user has deleted the account.
InitAuth ==
  /\ InitRequests
  /\ InitAccounts
  /\ mode = "auth"
  /\ \/ InitStores
     \/ /\ users = Users
        /\ likes = Mutual
        /\ likedCount = [u \in Users |-> getLikeCount(Mutual, u)]
        /\ likedByCount = [u \in Users |-> getLikedByCount(Mutual, u)]
        /\ workplaces = {[id |-> 1, userId |-> 1]}
        /\ nextPlaceId = 2
     \/ /\ users = Users \ {NumUsers}
        /\ likedCount = Zero
        /\ likedByCount = Zero
        /\ likes = NoLikes
        /\ workplaces = {}
        /\ nextPlaceId = 1

\* POST /auth/like/:targetUserId up to its first store call
LikeEntry(user, param) ==
  IF user = None THEN [pc |-> "done", status |-> 401]
  ELSE IF toString(user) = param THEN [pc |-> "done", status |-> 400]
  ELSE [pc |-> "like_findById", status |-> 0]

\* DELETE /auth/unlike/:targetUserId up to its first store call
UnlikeEntry(user) ==
  IF user = None THEN [pc |-> "done", status |-> 401]
  ELSE [pc |-> "unlike_findById", status |-> 0]

\* DELETE /auth/delete up to its first store call
DeleteEntry(user) ==
  IF user = None THEN [pc |-> "done", status |-> 401]
  ELSE [pc |-> "del_workplaces", status |-> 0]

\* POST /workplace up to its first store call
WorkPlaceEntry(user, bodyOk) ==
  IF ~bodyOk THEN [pc |-> "done", status |-> 400]
  ELSE IF user = None THEN [pc |-> "done", status |-> 401]
  ELSE [pc |-> "wp_insertOne", status |-> 0]

RouteEntry(o, user, param, bodyOk) ==
  CASE o = "like" -> LikeEntry(user, param)
    [] o = "unlike" -> UnlikeEntry(user)
    [] o = "delete" -> DeleteEntry(user)
    [] o = "createWorkPlace" -> WorkPlaceEntry(user, bodyOk)

\* the most requests a run receives
MaxStarted == CASE mode = "seq" -> MaxRequests
                [] mode = "conc" -> MaxRaceRequests
                [] mode = "auth" -> MaxAuthRequests

\* A request arrives (route, cookie, time, URL parameter and body are its
\* inputs), authenticateJWT runs, then the route handler up to its first
\* await.
authenticateJWT ==
  /\ started < MaxStarted
  /\ BagCardinality(requests) < (IF mode = "conc" THEN MaxInFlight ELSE 1)
  /\ \E o \in Ops, token \in RequestTokens(mode), hour \in RequestHours(mode),
        t \in Params, b \in BOOLEAN :
       LET did == Authenticate(token, hour)
           user == did.user
           e == RouteEntry(o, user, t, b)
           r == [pc |-> e.pc, op |-> o, reqUser |-> user,
                 target |-> ObjectId(t),
                 likesGiven |-> Zero, likesReceived |-> Zero]
       IN /\ o \notin {"like", "unlike"} => t = <<1, "lower">>
          /\ o # "createWorkPlace" => b = TRUE
          /\ IF e.pc = "done"
             THEN UNCHANGED requests /\ lastStatus' = e.status
             ELSE requests' = requests (+) SetToBag({r})
                  /\ UNCHANGED lastStatus
          /\ hist' = IF mode = "seq"
                     THEN [cur |-> [op |-> o, cookie |-> did.tokenUser,
                                    user |-> user,
                                    target |-> ObjectId(t),
                                    status |-> e.status,
                                    resCookie |->
                                      IF did.setCookie # NoToken
                                      THEN "renewed" ELSE "none",
                                    pre |-> Snapshot],
                           prevLike |->
                             IF hist.cur.op = "like" /\ hist.cur.status = 200
                             THEN [user |-> hist.cur.user,
                                   target |-> hist.cur.target,
                                   likedCount |-> hist.cur.pre.likedCount,
                                   likedByCount |-> hist.cur.pre.likedByCount]
                             ELSE NoLike]
                     ELSE hist
          /\ mw' = IF mode = "auth"
                   THEN [token |-> token, hour |-> hour, users |-> users,
                         did |-> did]
                   ELSE mw
  /\ started' = started + 1
  /\ UNCHANGED <<stores, mode, identity, others>>

edge(r) == <<r.reqUser, r.target>>

\* ------------------------------------------------- POST /auth/like/:target
LikeRoute_findById(r) ==
  /\ At(r, "like", "like_findById")
  /\ IF UserModel_findById(r.target) = None
     THEN Respond(r, 404)
     ELSE Goto(r, "like_exists")
  /\ UNCHANGED <<stores, started, mode, mw, identity, others>>

\* the route answering success when the edge is already there
LikeRoute_exists_silent(r) ==
  /\ At(r, "like", "like_exists")
  /\ IF likes[edge(r)] > 0
     THEN Respond(r, 200)
     ELSE Goto(r, "create_findOne")
  /\ UNCHANGED <<stores, started, mode, mw, identity, others>>

LikeRoute_exists(r) ==
  /\ At(r, "like", "like_exists")
  /\ IF likes[edge(r)] > 0
     THEN Respond(r, 400)
     ELSE Goto(r, "create_findOne")
  /\ UNCHANGED <<stores, started, mode, mw, identity, others>>

\* LikeModel.create: findOne; an existing like throws, create returns null
\* and the route answers 500
LikeModel_create_findOne(r) ==
  /\ At(r, "like", "create_findOne")
  /\ IF likes[edge(r)] > 0
     THEN Respond(r, 500)
     ELSE Goto(r, "create_insertOne")
  /\ UNCHANGED <<stores, started, mode, mw, identity, others>>

\* insertOne into a collection that has no unique index
LikeModel_create_insertOne_noIndex(r) ==
  /\ At(r, "like", "create_insertOne")
  /\ likes' = [likes EXCEPT ![edge(r)] = @ + 1]
  /\ Goto(r, "create_incFrom")
  /\ UNCHANGED <<users, likedCount, likedByCount, workplaces, nextPlaceId, started, mode, mw, identity, others>>

\* insertOne whose duplicate key error is swallowed before the increments
LikeModel_create_insertOne_swallow(r) ==
  /\ At(r, "like", "create_insertOne")
  /\ likes' = [likes EXCEPT ![edge(r)] = 1]
  /\ Goto(r, "create_incFrom")
  /\ UNCHANGED <<users, likedCount, likedByCount, workplaces, nextPlaceId, started, mode, mw, identity, others>>

\* LikeModel.create: insertOne under the unique index on (fromUserId,
\* toUserId); a duplicate key error is caught and create returns null
LikeModel_create_insertOne(r) ==
  /\ At(r, "like", "create_insertOne")
  /\ IF likes[edge(r)] > 0
     THEN /\ Respond(r, 500)
          /\ UNCHANGED likes
     ELSE /\ likes' = [likes EXCEPT ![edge(r)] = @ + 1]
          /\ Goto(r, "create_incFrom")
  /\ UNCHANGED <<users, likedCount, likedByCount, workplaces, nextPlaceId, started, mode, mw, identity, others>>

\* UserModel.incrementLikeCount / decrementLikeCount: updateOne with $inc,
\* which matches no document when the user is gone
Inc(counter, u, d) == IF u \in users THEN [counter EXCEPT ![u] = @ + d]
                      ELSE counter

LikeModel_create_incFrom(r) ==
  /\ At(r, "like", "create_incFrom")
  /\ likedCount' = Inc(likedCount, r.reqUser, 1)
  /\ Goto(r, "create_incTo")
  /\ UNCHANGED <<users, likedByCount, likes, workplaces, nextPlaceId, started, mode, mw, identity, others>>

LikeModel_create_incTo(r) ==
  /\ At(r, "like", "create_incTo")
  /\ likedByCount' = Inc(likedByCount, r.target, 1)
  /\ Respond(r, 200)
  /\ UNCHANGED <<users, likedCount, likes, workplaces, nextPlaceId, started, mode, mw, identity, others>>

\* --------------------------------------------- DELETE /auth/unlike/:target
UnlikeRoute_findById(r) ==
  /\ At(r, "unlike", "unlike_findById")
  /\ IF UserModel_findById(r.target) = None
     THEN Respond(r, 404)
     ELSE Goto(r, "unlike_exists")
  /\ UNCHANGED <<stores, started, mode, mw, identity, others>>

\* the route answering success when there is no edge to remove
UnlikeRoute_exists_silent(r) ==
  /\ At(r, "unlike", "unlike_exists")
  /\ IF likes[edge(r)] = 0
     THEN Respond(r, 200)
     ELSE Goto(r, "delete_deleteOne")
  /\ UNCHANGED <<stores, started, mode, mw, identity, others>>

UnlikeRoute_exists(r) ==
  /\ At(r, "unlike", "unlike_exists")
  /\ IF likes[edge(r)] = 0
     THEN Respond(r, 400)
     ELSE Goto(r, "delete_deleteOne")
  /\ UNCHANGED <<stores, started, mode, mw, identity, others>>

\* LikeModel.delete: deleteOne; deletedCount 0 throws, delete returns false
\* and the route answers 500
LikeModel_delete_deleteOne(r) ==
  /\ At(r, "unlike", "delete_deleteOne")
  /\ IF likes[edge(r)] = 0
     THEN /\ Respond(r, 500)
          /\ UNCHANGED likes
     ELSE /\ likes' = [likes EXCEPT ![edge(r)] = @ - 1]
          /\ Goto(r, "delete_decFrom")
  /\ UNCHANGED <<users, likedCount, likedByCount, workplaces, nextPlaceId, started, mode, mw, identity, others>>

LikeModel_delete_decFrom(r) ==
  /\ At(r, "unlike", "delete_decFrom")
  /\ likedCount' = Inc(likedCount, r.reqUser, -1)
  /\ Goto(r, "delete_decTo")
  /\ UNCHANGED <<users, likedByCount, likes, workplaces, nextPlaceId, started, mode, mw, identity, others>>

\* the second decrement applied to the sender's document
LikeModel_delete_decTo_wrongUser(r) ==
  /\ At(r, "unlike", "delete_decTo")
  /\ likedByCount' = Inc(likedByCount, r.reqUser, -1)
  /\ Respond(r, 200)
  /\ UNCHANGED <<users, likedCount, likes, workplaces, nextPlaceId, started, mode, mw, identity, others>>

LikeModel_delete_decTo(r) ==
  /\ At(r, "unlike", "delete_decTo")
  /\ likedByCount' = Inc(likedByCount, r.target, -1)
  /\ Respond(r, 200)
  /\ UNCHANGED <<users, likedCount, likes, workplaces, nextPlaceId, started, mode, mw, identity, others>>

\* ------------------------------------------------------ DELETE /auth/delete
\* WorkPlaceModel.deleteByUserId: every work place owned by userId goes
WorkPlaceModel_deleteByUserId(w, userId) == {x \in w : x.userId # userId}

\* UserModel.delete that forgets the work places
UserModel_delete_workplaces_skip(r) ==
  /\ At(r, "delete", "del_workplaces")
  /\ Goto(r, "del_findGiven")
  /\ UNCHANGED <<stores, started, mode, mw, identity, others>>

\* UserModel.delete: await WorkPlaceModel.deleteByUserId(objectId)
UserModel_delete_workplaces(r) ==
  /\ At(r, "delete", "del_workplaces")
  /\ workplaces' = WorkPlaceModel_deleteByUserId(workplaces, r.reqUser)
  /\ Goto(r, "del_findGiven")
  /\ UNCHANGED <<users, likedCount, likedByCount, likes, nextPlaceId, started, mode, mw, identity, others>>

\* LikeModel.deleteByUserId: find({ fromUserId: userId }).toArray()
LikeModel_deleteByUserId_findGiven(r) ==
  /\ At(r, "delete", "del_findGiven")
  /\ Continue(r, [r EXCEPT
                    !.pc = "del_findReceived",
                    !.likesGiven = [t \in Users |-> likes[<<r.reqUser, t>>]]])
  /\ UNCHANGED <<stores, started, mode, mw, identity, others>>

\* where deleteByUserId continues once both arrays are read or one more
\* counter is decremented
LoopPc(given, received) ==
  IF Sum(given) > 0 THEN "del_decGiven"
  ELSE IF Sum(received) > 0 THEN "del_decReceived"
  ELSE "del_deleteMany"

\* LikeModel.deleteByUserId: find({ toUserId: userId }).toArray()
LikeModel_deleteByUserId_findReceived(r) ==
  /\ At(r, "delete", "del_findReceived")
  /\ LET received == [f \in Users |-> likes[<<f, r.reqUser>>]]
     IN Continue(r, [r EXCEPT !.pc = LoopPc(r.likesGiven, received),
                              !.likesReceived = received])
  /\ UNCHANGED <<stores, started, mode, mw, identity, others>>

\* for (const like of likesGiven) decrementLikeCount(like.toUserId, ...)
LikeModel_deleteByUserId_decGiven(r) ==
  /\ At(r, "delete", "del_decGiven")
  /\ \E t \in Users :
       /\ r.likesGiven[t] > 0
       /\ likedByCount' = Inc(likedByCount, t, -1)
       /\ LET given == [r.likesGiven EXCEPT ![t] = @ - 1]
          IN Continue(r, [r EXCEPT !.pc = LoopPc(given, r.likesReceived),
                                   !.likesGiven = given])
  /\ UNCHANGED <<users, likedCount, likes, workplaces, nextPlaceId, started, mode, mw, identity, others>>

\* for (const like of likesReceived) decrementLikeCount(like.fromUserId, ...)
LikeModel_deleteByUserId_decReceived(r) ==
  /\ At(r, "delete", "del_decReceived")
  /\ \E f \in Users :
       /\ r.likesReceived[f] > 0
       /\ likedCount' = Inc(likedCount, f, -1)
       /\ LET received == [r.likesReceived EXCEPT ![f] = @ - 1]
          IN Continue(r, [r EXCEPT !.pc = LoopPc(r.likesGiven, received),
                                   !.likesReceived = received])
  /\ UNCHANGED <<users, likedByCount, likes, workplaces, nextPlaceId, started, mode, mw, identity, others>>

\* deleteMany that matches the given likes only
LikeModel_deleteByUserId_deleteMany_givenOnly(r) ==
  /\ At(r, "delete", "del_deleteMany")
  /\ likes' = [e \in Pairs |-> IF e[1] = r.reqUser THEN 0 ELSE likes[e]]
  /\ Goto(r, "del_deleteOne")
  /\ UNCHANGED <<users, likedCount, likedByCount, workplaces, nextPlaceId, started, mode, mw, identity, others>>

\* LikeModel.deleteByUserId: deleteMany({ $or: [from userId, to userId] })
LikeModel_deleteByUserId_deleteMany(r) ==
  /\ At(r, "delete", "del_deleteMany")
  /\ likes' = [e \in Pairs |-> IF e[1] = r.reqUser \/ e[2] = r.reqUser
                               THEN 0 ELSE likes[e]]
  /\ Goto(r, "del_deleteOne")
  /\ UNCHANGED <<users, likedCount, likedByCount, workplaces, nextPlaceId, started, mode, mw, identity, others>>

\* UserModel.delete: deleteOne({ _id }), then the route's answer: 404 when
\* nothing was deleted, else clearCookie and 200
UserModel_delete_deleteOne(r) ==
  /\ At(r, "delete", "del_deleteOne")
  /\ IF r.reqUser \in users
     THEN /\ users' = users \ {r.reqUser}
          /\ likedCount' = [likedCount EXCEPT ![r.reqUser] = 0]
          /\ likedByCount' = [likedByCount EXCEPT ![r.reqUser] = 0]
          /\ RespondWith(r, 200, TRUE)
     ELSE /\ UNCHANGED <<users, likedCount, likedByCount>>
          /\ Respond(r, 404)
  /\ UNCHANGED <<likes, workplaces, nextPlaceId, started, mode, mw, identity, others>>

\* --------------------------------------------------------- POST /workplace
\* WorkPlaceModel.create: insertOne
WorkPlaceModel_create(r) ==
  /\ At(r, "createWorkPlace", "wp_insertOne")
  /\ workplaces' = workplaces \cup
                     {[id |-> nextPlaceId,
                       userId |-> ObjectId(toString(r.reqUser))]}
  /\ nextPlaceId' = nextPlaceId + 1
  /\ Respond(r, 201)
  /\ UNCHANGED <<users, likedCount, likedByCount, likes, started, mode, mw, identity, others>>

\* ------------------------------------------------------------------- Next
Next ==
  \/ authenticateJWT
  \/ \E r \in InFlight : LikeRoute_findById(r)
  \/ \E r \in InFlight : LikeRoute_exists(r)
  \/ \E r \in InFlight : LikeModel_create_findOne(r)
  \/ \E r \in InFlight : LikeModel_create_insertOne(r)
  \/ \E r \in InFlight : LikeModel_create_incFrom(r)
  \/ \E r \in InFlight : LikeModel_create_incTo(r)
  \/ \E r \in InFlight : UnlikeRoute_findById(r)
  \/ \E r \in InFlight : UnlikeRoute_exists(r)
  \/ \E r \in InFlight : LikeModel_delete_deleteOne(r)
  \/ \E r \in InFlight : LikeModel_delete_decFrom(r)
  \/ \E r \in InFlight : LikeModel_delete_decTo(r)
  \/ \E r \in InFlight : UserModel_delete_workplaces(r)
  \/ \E r \in InFlight : LikeModel_deleteByUserId_findGiven(r)
  \/ \E r \in InFlight : LikeModel_deleteByUserId_findReceived(r)
  \/ \E r \in InFlight : LikeModel_deleteByUserId_decGiven(r)
  \/ \E r \in InFlight : LikeModel_deleteByUserId_decReceived(r)
  \/ \E r \in InFlight : LikeModel_deleteByUserId_deleteMany(r)
  \/ \E r \in InFlight : UserModel_delete_deleteOne(r)
  \/ \E r \in InFlight : WorkPlaceModel_create(r)

\* requests overlap freely
Spec == Init /\ [][Next]_vars

\* one request at a time
SpecSeq == InitSeq /\ [][Next]_vars

\* -------------------------------------------------- join and OAuth login
\* collection.findOne(filter): the first document that matches, or null
findOne(matching) ==
  IF matching = {} THEN None
  ELSE CHOOSE u \in matching : \A v \in matching : u <= v

\* UserModel.findByEmail
UserModel_findByEmail(email) ==
  findOne({u \in users : accounts[u].email = email})

\* UserModel.findByGithubId / UserModel.findByGoogleId
UserModel_findByProviderId(provider, pid) ==
  findOne({u \in users : IF provider = "github"
                         THEN accounts[u].githubId = pid
                         ELSE accounts[u].googleId = pid})

\* the _id insertOne gives a new user document
FreeIds == Users \ users

\* UserModel.create: insertOne of the account with both counters at 0
UserModel_create(id, account) ==
  /\ users' = users \cup {id}
  /\ accounts' = [accounts EXCEPT ![id] = account]
  /\ likedCount' = [likedCount EXCEPT ![id] = 0]
  /\ likedByCount' = [likedByCount EXCEPT ![id] = 0]

\* the join or login request r ends: status, the user it ended with, and
\* the auth_token cookie set on the response
Finish(r, code, user, cookie) ==
  /\ requests' = requests (-) SetToBag({r})
  /\ lastStatus' = code
  /\ idHist' = IF mode \in {"loginSeq", "loginPair"}
               THEN [idHist EXCEPT !.status = code, !.user = user,
                                   !.cookie = cookie]
               ELSE idHist

\* the join or login request goes on as r2, with the collection untouched
Lookup(r, r2) ==
  /\ requests' = (requests (-) SetToBag({r})) (+) SetToBag({r2})
  /\ UNCHANGED <<users, accounts, likedCount, likedByCount, lastStatus,
                 idHist>>

\* what a join or login request leaves alone
LoginFrame == UNCHANGED <<likes, workplaces, nextPlaceId, started, mode,
                          hist, mw, others>>

\* the most join and login requests a run receives
MaxLoginsStarted == CASE mode = "logins" -> MaxRaceLogins
                     [] mode = "loginSeq" -> MaxLogins
                     [] mode = "loginPair" -> MaxPairLogins

\* A join request or the verify callback of an OAuth login arrives; a join
\* without email is answered 400 before any store call.
LoginArrives ==
  /\ started < MaxLoginsStarted
  /\ BagCardinality(requests) < (IF mode = "logins" THEN MaxInFlight ELSE 1)
  /\ \E o \in {"join", "github", "google"}, email \in Emails \cup {NoEmail},
        name \in Names, pid \in ProviderIds, avatar \in Avatars :
       LET bad == o = "join" /\ email = NoEmail
           r == [pc |-> IF o = "join" THEN "join_findByEmail"
                        ELSE "oauth_findByProviderId",
                 op |-> o, email |-> email, name |-> name,
                 pid |-> IF o = "join" THEN Absent ELSE pid,
                 avatar |-> IF o = "join" THEN Absent ELSE avatar,
                 found |-> None]
       IN /\ o = "join" => pid = "p1" /\ avatar = Absent
          /\ IF bad
             THEN UNCHANGED requests /\ lastStatus' = 400
             ELSE requests' = requests (+) SetToBag({r})
                  /\ UNCHANGED lastStatus
          /\ idHist' = IF mode \in {"loginSeq", "loginPair"}
                       THEN [op |-> o, email |-> email, name |-> name,
                             pid |-> r.pid, avatar |-> r.avatar,
                             status |-> IF bad THEN 400 ELSE 0,
                             user |-> None, cookie |-> NoToken,
                             first |-> IF mode = "loginPair"
                                          /\ idHist.op # "none"
                                       THEN FirstLogin ELSE idHist.first,
                             pre |-> [users |-> users,
                                      accounts |-> accounts,
                                      likedCount |-> likedCount,
                                      likedByCount |-> likedByCount]]
                       ELSE idHist
  /\ started' = started + 1
  /\ UNCHANGED <<stores, accounts, mode, hist, mw, others>>

\* a join that creates the account although the email is taken
Join_findByEmail_noCheck(r) ==
  /\ At(r, "join", "join_findByEmail")
  /\ Lookup(r, [r EXCEPT !.pc = "join_create"])
  /\ LoginFrame

\* POST /auth/join: findByEmail; an existing account is answered 409
Join_findByEmail(r) ==
  /\ At(r, "join", "join_findByEmail")
  /\ IF UserModel_findByEmail(r.email) # None
     THEN /\ Finish(r, 409, None, NoToken)
          /\ UNCHANGED <<users, accounts, likedCount, likedByCount>>
     ELSE Lookup(r, [r EXCEPT !.pc = "join_create"])
  /\ LoginFrame

\* POST /auth/join: UserModel.create, setCookieWithToken, 200
Join_create(r) ==
  /\ At(r, "join", "join_create")
  /\ \E id \in FreeIds :
       /\ \A other \in FreeIds : id <= other
       /\ UserModel_create(id, NewAccount(r.email, r.name, Absent, Absent, Absent))
       /\ Finish(r, 200, id, generateToken(id, EpochHours))
  /\ LoginFrame

\* verify callback: findByGithubId / findByGoogleId(profile.id)
OAuth_findByProviderId(r) ==
  /\ r \in InFlight /\ r.pc = "oauth_findByProviderId"
  /\ LET user == UserModel_findByProviderId(r.op, r.pid)
     IN Lookup(r, [r EXCEPT !.found = user,
                            !.pc = IF user # None
                                   THEN "oauth_updateLastLogin"
                                   ELSE "oauth_findByEmail"])
  /\ LoginFrame

\* a provider id match that also takes the avatar of the profile
OAuth_updateLastLogin_merge(r) ==
  /\ r \in InFlight /\ r.pc = "oauth_updateLastLogin"
  /\ accounts' = [accounts EXCEPT ![r.found].lastLoginAt = Now,
                                  ![r.found].updatedAt = Now,
                                  ![r.found].profileImage = r.avatar]
  /\ Finish(r, 200, r.found, NoToken)
  /\ UNCHANGED <<users, likedCount, likedByCount>>
  /\ LoginFrame

\* verify callback: updateLastLogin(user._id), done(null, user)
OAuth_updateLastLogin(r) ==
  /\ r \in InFlight /\ r.pc = "oauth_updateLastLogin"
  /\ accounts' = [accounts EXCEPT ![r.found].lastLoginAt = Now,
                                  ![r.found].updatedAt = Now]
  /\ Finish(r, 200, r.found, NoToken)
  /\ UNCHANGED <<users, likedCount, likedByCount>>
  /\ LoginFrame

\* verify callback: findByEmail(profile.emails?.[0]?.value || "")
OAuth_findByEmail(r) ==
  /\ r \in InFlight /\ r.pc = "oauth_findByEmail"
  /\ LET user == UserModel_findByEmail(r.email)
     IN Lookup(r, [r EXCEPT !.found = user,
                            !.pc = IF user # None THEN "oauth_update"
                                   ELSE "oauth_create"])
  /\ LoginFrame

\* an email match that also takes the name of the profile
OAuth_update_withName(r) ==
  /\ r \in InFlight /\ r.pc = "oauth_update"
  /\ accounts' = [accounts EXCEPT
                    ![r.found].name = r.name,
                    ![r.found].githubId =
                       IF r.op = "github" THEN r.pid ELSE @,
                    ![r.found].googleId =
                       IF r.op = "google" THEN r.pid ELSE @,
                    ![r.found].profileImage = r.avatar,
                    ![r.found].updatedAt = Now]
  /\ Finish(r, 200, r.found, NoToken)
  /\ UNCHANGED <<users, likedCount, likedByCount>>
  /\ LoginFrame

\* verify callback: UserModel.update(existingUser._id, { githubId or
\* googleId: profile.id, profileImage }), done(null, updatedUser)
OAuth_update(r) ==
  /\ r \in InFlight /\ r.pc = "oauth_update"
  /\ accounts' = [accounts EXCEPT
                    ![r.found].githubId =
                       IF r.op = "github" THEN r.pid ELSE @,
                    ![r.found].googleId =
                       IF r.op = "google" THEN r.pid ELSE @,
                    ![r.found].profileImage = r.avatar,
                    ![r.found].updatedAt = Now]
  /\ Finish(r, 200, r.found, NoToken)
  /\ UNCHANGED <<users, likedCount, likedByCount>>
  /\ LoginFrame

\* verify callback: UserModel.create from the profile, done(null, user)
OAuth_create(r) ==
  /\ r \in InFlight /\ r.pc = "oauth_create"
  /\ \E id \in FreeIds :
       /\ \A other \in FreeIds : id <= other
       /\ UserModel_create(id,
            NewAccount(r.email, r.name, r.avatar,
                       IF r.op = "github" THEN r.pid ELSE Absent,
                       IF r.op = "google" THEN r.pid ELSE Absent))
       /\ Finish(r, 200, id, NoToken)
  /\ LoginFrame

NextLogins ==
  \/ LoginArrives
  \/ \E r \in InFlight : Join_findByEmail(r)
  \/ \E r \in InFlight : Join_create(r)
  \/ \E r \in InFlight : OAuth_findByProviderId(r)
  \/ \E r \in InFlight : OAuth_updateLastLogin(r)
  \/ \E r \in InFlight : OAuth_findByEmail(r)
  \/ \E r \in InFlight : OAuth_update(r)
  \/ \E r \in InFlight : OAuth_create(r)

\* The users collection as earlier requests left it: empty, or one user
\* that joined by email, or a user that logged in with GitHub next to one
\* that joined by email, the two liking each other.
InitUsers ==
  /\ InitRequests
  /\ workplaces = {} /\ nextPlaceId = 1
  /\ \/ /\ users = {}
        /\ accounts = [u \in Users |-> NoAccount]
        /\ likedCount = Zero /\ likedByCount = Zero /\ likes = NoLikes
     \/ /\ users = {1}
        /\ accounts = [u \in Users |-> IF u = 1 THEN Manual(1) ELSE NoAccount]
        /\ likedCount = Zero /\ likedByCount = Zero /\ likes = NoLikes
     \/ /\ users = {1, 2}
        /\ likes = Mutual
        /\ likedCount = [u \in Users |-> getLikeCount(Mutual, u)]
        /\ likedByCount = [u \in Users |-> getLikedByCount(Mutual, u)]
        /\ accounts = [u \in Users |->
                         IF u = 1 THEN [Manual(1) EXCEPT !.githubId = "p1",
                                                         !.name = "Lee"]
                         ELSE IF u = 2 THEN Manual(2) ELSE NoAccount]

InitLogins == InitUsers /\ mode = "logins"

InitLoginSeq == InitUsers /\ mode = "loginSeq"

InitLoginPair == InitUsers /\ mode = "loginPair"

\* join and login requests overlap
SpecLogins == InitLogins /\ [][NextLogins]_vars

\* join and login requests one at a time
SpecLoginSeq == InitLoginSeq /\ [][NextLogins]_vars

\* two join or login requests, one after the other
SpecLoginPair == InitLoginPair /\ [][NextLogins]_vars

\* The store call the request r is waiting for rejects (connection lost,
\* timeout, ...): the exception leaves the model method, the route's catch
\* answers 500, and what the handler has written so far stays written.
StoreError(r) ==
  /\ r \in InFlight
  /\ Respond(r, 500)
  /\ UNCHANGED <<stores, started, mode, mw, identity, others>>

NextFault ==
  \/ Next
  \/ \E r \in InFlight : StoreError(r)

\* one request at a time, with the middleware's work on record
SpecAuth == InitAuth /\ [][Next]_vars

\* one request at a time, store calls may fail
SpecFault == InitSeq /\ [][NextFault]_vars

\* ------------------------------------------------------- message routes
\* _ids of messages a request may name
MessageIds == 1..MaxMailRequests

\* MessageModel.findById: the document with that _id, or null
MessageModel_findById(id) ==
  IF \E m \in messages : m.id = id
  THEN CHOOSE m \in messages : m.id = id
  ELSE NoMessage

\* insertOne hands out an _id no message has had
insertedId == Cardinality(messages) + 1

\* POST /message/send up to its first store call; valid is
\* ObjectId.isValid(targetUserId)
SendEntry(user, valid, subject, content) ==
  IF user = None THEN [pc |-> "done", status |-> 401]
  ELSE IF subject = "" \/ content = "" THEN [pc |-> "done", status |-> 400]
  ELSE IF ~valid THEN [pc |-> "done", status |-> 400]
  ELSE [pc |-> "send_findById", status |-> 0]

\* GET /message/:id and PATCH /message/:id/read up to their first store
\* call; valid is ObjectId.isValid(id)
MessageEntry(user, valid, label) ==
  IF user = None THEN [pc |-> "done", status |-> 401]
  ELSE IF ~valid THEN [pc |-> "done", status |-> 400]
  ELSE [pc |-> label, status |-> 0]

MailEntry(o, user, valid, subject, content) ==
  CASE o = "send" -> SendEntry(user, valid, subject, content)
    [] o = "getById" -> MessageEntry(user, valid, "get_findById")
    [] o = "markRead" -> MessageEntry(user, valid, "read_findById")

\* the response of a message route: status and, where the route sends a
\* message, that message
Reply(r, code, body) ==
  /\ requests' = requests (-) SetToBag({r})
  /\ lastStatus' = code
  /\ mailHist' = [mailHist EXCEPT !.status = code, !.body = body]

\* the message route goes on to its next await
Await(r, r2) ==
  /\ requests' = (requests (-) SetToBag({r})) (+) SetToBag({r2})
  /\ UNCHANGED <<lastStatus, mailHist>>

MailFrame == UNCHANGED <<stores, started, mode, hist, mw, identity,
                         placeHist, likeLog, listing, mig>>

\* A request to a message route arrives: authenticateJWT runs, then the
\* handler up to its first await.
MailArrives ==
  /\ mode = "mail"
  /\ started < MaxMailRequests
  /\ Quiescent
  /\ \E o \in {"send", "getById", "markRead"}, token \in RequestTokens(mode),
        t \in Params, id \in MessageIds, valid \in BOOLEAN,
        subject \in Texts, content \in Texts :
       LET user == Authenticate(token, EpochHours).user
           e == MailEntry(o, user, valid, subject, content)
           r == [pc |-> e.pc, op |-> o, reqUser |-> user, target |-> t,
                 id |-> id, subject |-> subject, content |-> content,
                 toUserEmail |-> NoEmail]
       IN /\ o = "send" => id = 1
          /\ o # "send" => t = <<1, "lower">> /\ subject = "" /\ content = ""
          /\ ~valid => t = <<1, "lower">> /\ id = 1
          /\ subject = "" => content = ""
          /\ IF e.pc = "done"
             THEN UNCHANGED requests /\ lastStatus' = e.status
             ELSE requests' = requests (+) SetToBag({r})
                  /\ UNCHANGED lastStatus
          /\ mailHist' = [op |-> o, user |-> user, target |-> t,
                          id |-> IF o = "send" \/ ~valid THEN None ELSE id,
                          wellFormed |-> /\ valid
                                         /\ o = "send"
                                            => subject # "" /\ content # "",
                          status |-> e.status, body |-> NoMessage,
                          pre |-> messages]
  /\ started' = started + 1
  /\ UNCHANGED <<stores, mode, hist, mw, identity, messages, placeHist,
                 likeLog, listing, mig>>

\* POST /message/send: const recipient = await UserModel.findById(
\* targetUserId), then the comparison of req.user._id.toString() with the
\* parameter
Send_findById(r) ==
  /\ At(r, "send", "send_findById")
  /\ IF UserModel_findById(ObjectId(r.target)) = None
     THEN Reply(r, 404, NoMessage)
     ELSE IF toString(r.reqUser) = r.target
     THEN Reply(r, 400, NoMessage)
     ELSE Await(r, [r EXCEPT !.pc = "create_findById"])
  /\ UNCHANGED messages
  /\ MailFrame

\* MessageModel.create: const targetUser = await UserModel.findById(...);
\* the throw for a missing target ends in the route's catch
MessageModel_create_findById(r) ==
  /\ At(r, "send", "create_findById")
  /\ LET targetUser == UserModel_findById(ObjectId(r.target))
     IN IF targetUser = None
        THEN Reply(r, 500, NoMessage)
        ELSE Await(r, [r EXCEPT !.pc = "create_insertOne",
                                !.toUserEmail = accounts[targetUser].email])
  /\ UNCHANGED messages
  /\ MailFrame

\* MessageModel.create: await this.collection.insertOne(message)
MessageModel_create_insertOne(r) ==
  /\ At(r, "send", "create_insertOne")
  /\ LET message == [id |-> insertedId,
                     fromUserId |-> r.reqUser,
                     targetUserId |-> ObjectId(r.target),
                     toUserEmail |-> r.toUserEmail,
                     subject |-> r.subject, content |-> r.content,
                     isRead |-> FALSE, readAt |-> 0, updatedAt |-> Now]
     IN /\ messages' = messages \cup {message}
        /\ Reply(r, 201, message)
  /\ MailFrame

\* GET /message/:id that shows a message to every user
Get_findById_open(r) ==
  /\ At(r, "getById", "get_findById")
  /\ LET message == MessageModel_findById(r.id)
     IN IF message = NoMessage THEN Reply(r, 404, NoMessage)
        ELSE Reply(r, 200, message)
  /\ UNCHANGED messages
  /\ MailFrame

\* GET /message/:id: await MessageModel.findById(id), then isAuthorized
Get_findById(r) ==
  /\ At(r, "getById", "get_findById")
  /\ LET message == MessageModel_findById(r.id)
         isAuthorized == \/ toString(message.fromUserId) = toString(r.reqUser)
                         \/ toString(message.targetUserId)
                              = toString(r.reqUser)
     IN IF message = NoMessage THEN Reply(r, 404, NoMessage)
        ELSE IF ~isAuthorized THEN Reply(r, 403, NoMessage)
        ELSE Reply(r, 200, message)
  /\ UNCHANGED messages
  /\ MailFrame

\* PATCH /message/:id/read that lets the sender mark the message too
Read_findById_senderToo(r) ==
  /\ At(r, "markRead", "read_findById")
  /\ LET message == MessageModel_findById(r.id)
     IN IF message = NoMessage THEN Reply(r, 404, NoMessage)
        ELSE IF r.reqUser \notin {message.targetUserId, message.fromUserId}
        THEN Reply(r, 403, NoMessage)
        ELSE Await(r, [r EXCEPT !.pc = "read_update"])
  /\ UNCHANGED messages
  /\ MailFrame

\* PATCH /message/:id/read: await MessageModel.findById(id), then the test
\* of the requester against targetUserId
Read_findById(r) ==
  /\ At(r, "markRead", "read_findById")
  /\ LET message == MessageModel_findById(r.id)
     IN IF message = NoMessage THEN Reply(r, 404, NoMessage)
        ELSE IF toString(message.targetUserId) # toString(r.reqUser)
        THEN Reply(r, 403, NoMessage)
        ELSE Await(r, [r EXCEPT !.pc = "read_update"])
  /\ UNCHANGED messages
  /\ MailFrame

\* markAsRead that flips isRead
MessageModel_markAsRead_toggle(r) ==
  /\ At(r, "markRead", "read_update")
  /\ LET message == MessageModel_findById(r.id)
         result == [message EXCEPT !.isRead = ~message.isRead,
                                   !.readAt = Now,
                                   !.updatedAt = Now]
     IN IF message = NoMessage
        THEN UNCHANGED messages /\ Reply(r, 200, NoMessage)
        ELSE /\ messages' = (messages \ {message}) \cup {result}
             /\ Reply(r, 200, result)
  /\ MailFrame

\* MessageModel.markAsRead: findOneAndUpdate({ _id }, { $set: { isRead:
\* true, readAt: now, updatedAt: now } }, { returnDocument: "after" })
MessageModel_markAsRead(r) ==
  /\ At(r, "markRead", "read_update")
  /\ LET message == MessageModel_findById(r.id)
         result == [message EXCEPT !.isRead = TRUE,
                                   !.readAt = Now,
                                   !.updatedAt = Now]
     IN IF message = NoMessage
        THEN UNCHANGED messages /\ Reply(r, 200, NoMessage)
        ELSE /\ messages' = (messages \ {message}) \cup {result}
             /\ Reply(r, 200, result)
  /\ MailFrame

NextMail ==
  \/ MailArrives
  \/ \E r \in InFlight : Send_findById(r)
  \/ \E r \in InFlight : MessageModel_create_findById(r)
  \/ \E r \in InFlight : MessageModel_create_insertOne(r)
  \/ \E r \in InFlight : Get_findById(r)
  \/ \E r \in InFlight : Read_findById(r)
  \/ \E r \in InFlight : MessageModel_markAsRead(r)

\* The message routes start with all users or with the last user's account
\* deleted.
InitMail ==
  /\ InitRequests
  /\ InitAccounts
  /\ mode = "mail"
  /\ likedCount = Zero /\ likedByCount = Zero /\ likes = NoLikes
  /\ workplaces = {} /\ nextPlaceId = 1
  /\ users \in {Users, Users \ {NumUsers}}

\* message requests one at a time
SpecMail == InitMail /\ [][NextMail]_vars

\* MessageModel.deleteByUserId: deleteMany({ $or: [{ fromUserId },
\* { toUserEmail: { $exists: true } }] }); every message document has the
\* field toUserEmail
MessageModel_deleteByUserId(userId) ==
  /\ mode = "mail"
  /\ Quiescent
  /\ messages' = {m \in messages : ~(\/ m.fromUserId = userId
                                       \/ "toUserEmail" \in DOMAIN m)}
  /\ mailHist' = [NoMail EXCEPT !.op = "deleteByUserId", !.user = userId,
                                !.pre = messages]
  /\ UNCHANGED <<requests, lastStatus>>
  /\ MailFrame

NextMessageModel ==
  \/ NextMail
  \/ \E userId \in Users : MessageModel_deleteByUserId(userId)

\* message requests one at a time and calls of MessageModel.deleteByUserId
\* between them
SpecMessageModel == InitMail /\ [][NextMessageModel]_vars

\* -------------------------------------------------- DELETE /workplace/:id
\* _ids of work places a request may name
PlaceIds == 1..MaxPlaceRequests

\* WorkPlaceModel.findById: the document with that _id, or null
WorkPlaceModel_findById(id) ==
  IF \E w \in workplaces : w.id = id
  THEN CHOOSE w \in workplaces : w.id = id
  ELSE NoPlace

\* DELETE /workplace/:id up to its first store call
DeletePlaceEntry(user) ==
  IF user = None THEN [pc |-> "done", status |-> 401]
  ELSE [pc |-> "wpd_findById", status |-> 0]

\* A request to create or to delete a work place arrives: authenticateJWT
\* runs, then the handler up to its first await.
PlaceArrives ==
  /\ mode = "places"
  /\ started < MaxPlaceRequests
  /\ Quiescent
  /\ \E o \in {"createWorkPlace", "deleteWorkPlace"},
        token \in RequestTokens(mode), id \in PlaceIds, b \in BOOLEAN :
       LET user == Authenticate(token, EpochHours).user
           e == IF o = "createWorkPlace" THEN WorkPlaceEntry(user, b)
                ELSE DeletePlaceEntry(user)
           r == IF o = "createWorkPlace"
                THEN [pc |-> e.pc, op |-> o, reqUser |-> user,
                      target |-> None, likesGiven |-> Zero,
                      likesReceived |-> Zero]
                ELSE [pc |-> e.pc, op |-> o, reqUser |-> user, id |-> id,
                      wellFormed |-> b]
       IN /\ o = "createWorkPlace" => id = 1
          /\ IF e.pc = "done"
             THEN UNCHANGED requests /\ lastStatus' = e.status
             ELSE requests' = requests (+) SetToBag({r})
                  /\ UNCHANGED lastStatus
          /\ placeHist' = [op |-> o, user |-> user,
                           id |-> IF o = "createWorkPlace" \/ ~b THEN None
                                  ELSE id,
                           wellFormed |-> b, pre |-> workplaces]
  /\ started' = started + 1
  /\ UNCHANGED <<stores, mode, hist, mw, identity, messages, mailHist,
                 likeLog, listing, mig>>

\* DELETE /workplace/:id that lets every user delete
DeletePlace_findById_anyUser(r) ==
  /\ At(r, "deleteWorkPlace", "wpd_findById")
  /\ IF ~r.wellFormed THEN Respond(r, 500)
     ELSE IF WorkPlaceModel_findById(r.id) = NoPlace THEN Respond(r, 404)
     ELSE Goto(r, "wpd_deleteOne")
  /\ UNCHANGED <<stores, started, mode, mw, identity, others>>

\* DELETE /workplace/:id: await WorkPlaceModel.findById(id) (new ObjectId
\* throws for an id that is no ObjectId, which the catch answers), then the
\* test of the owner
DeletePlace_findById(r) ==
  /\ At(r, "deleteWorkPlace", "wpd_findById")
  /\ LET workPlace == WorkPlaceModel_findById(r.id)
     IN IF ~r.wellFormed THEN Respond(r, 500)
        ELSE IF workPlace = NoPlace THEN Respond(r, 404)
        ELSE IF toString(workPlace.userId) # toString(r.reqUser)
        THEN Respond(r, 403)
        ELSE Goto(r, "wpd_deleteOne")
  /\ UNCHANGED <<stores, started, mode, mw, identity, others>>

\* WorkPlaceModel.delete: deleteOne({ _id }), deletedCount > 0
WorkPlaceModel_delete(r) ==
  /\ At(r, "deleteWorkPlace", "wpd_deleteOne")
  /\ LET workPlace == WorkPlaceModel_findById(r.id)
     IN /\ workplaces' = workplaces \ {workPlace}
        /\ Respond(r, IF workPlace # NoPlace THEN 200 ELSE 404)
  /\ UNCHANGED <<users, likedCount, likedByCount, likes, nextPlaceId, started,
                 mode, mw, identity, others>>

NextPlaces ==
  \/ PlaceArrives
  \/ \E r \in InFlight : WorkPlaceModel_create(r)
  \/ \E r \in InFlight : DeletePlace_findById(r)
  \/ \E r \in InFlight : WorkPlaceModel_delete(r)

InitPlaces == InitStores /\ InitRequests /\ InitAccounts /\ mode = "places"

\* work place requests one at a time
SpecPlaces == InitPlaces /\ [][NextPlaces]_vars

\* ------------------------------- GET /auth/liked-users, /liked-by-users
Reverse(s) == [i \in 1..Len(s) |-> s[Len(s) + 1 - i]]

Min(a, b) == IF a < b THEN a ELSE b

\* parseInt(req.query.x as string) || dflt: an absent query value parses to
\* NaN, and NaN and 0 are falsy
parseIntOr(q, dflt) == IF q = 0 THEN dflt ELSE q

defaultPage == 1

defaultLimit == 20

\* skip that starts one page late
skip_nextPage(page, limit) == page * limit

\* const skip = (page - 1) * limit
skip(page, limit) == (page - 1) * limit

\* The aggregation of getLikedUsers (mine = 1, theirs = 2) and of
\* getLikedByUsers (mine = 2, theirs = 1): $match on the user's side, $sort
\* by createdAt descending, $skip, $limit, $lookup of the counterpart in
\* users and $unwind, which drops an edge whose counterpart has no document.
aggregate(userId, limit, skipped, mine, theirs) ==
  LET matched == SelectSeq(likeLog, LAMBDA e : e[mine] = userId)
      sorted == Reverse(matched)
      window == SubSeq(sorted, skipped + 1,
                       Min(skipped + limit, Len(sorted)))
      joined == SelectSeq(window, LAMBDA e : e[theirs] \in users)
  IN [i \in 1..Len(joined) |-> joined[i][theirs]]

\* LikeModel.getLikedUsers(userId, limit, skip)
getLikedUsers(userId, limit, skipped) == aggregate(userId, limit, skipped, 1, 2)

\* LikeModel.getLikedByUsers(userId, limit, skip)
getLikedByUsers(userId, limit, skipped) ==
  aggregate(userId, limit, skipped, 2, 1)

ListingFrame == UNCHANGED <<stores, requests, mode, hist, mw, identity,
                            messages, mailHist, placeHist, likeLog, mig>>

\* the listing route o answers the request of user with the query values
\* pageQuery and limitQuery
Listing(o, user, pageQuery, limitQuery) ==
  LET page == parseIntOr(pageQuery, defaultPage)
      limit == parseIntOr(limitQuery, defaultLimit)
      found == IF o = "likedUsers"
               THEN getLikedUsers(user, limit, skip(page, limit))
               ELSE getLikedByUsers(user, limit, skip(page, limit))
  IN IF user = None
     THEN [NoListing EXCEPT !.op = o, !.page = pageQuery,
                            !.limit = limitQuery, !.status = 401]
     ELSE [op |-> o, user |-> user, page |-> pageQuery,
           limit |-> limitQuery, status |-> 200, users |-> found,
           hasMore |-> Len(found) = limit]

\* GET /auth/liked-users
LikedUsersRoute ==
  /\ mode = "listing"
  /\ listing = NoListing
  /\ \E token \in RequestTokens(mode), pageQuery \in 0..MaxPage,
        limitQuery \in 0..MaxLimit :
       LET user == Authenticate(token, EpochHours).user
       IN /\ listing' = Listing("likedUsers", user, pageQuery, limitQuery)
          /\ lastStatus' = listing'.status
  /\ started' = started + 1
  /\ ListingFrame

\* GET /auth/liked-by-users
LikedByUsersRoute ==
  /\ mode = "listing"
  /\ listing = NoListing
  /\ \E token \in RequestTokens(mode), pageQuery \in 0..MaxPage,
        limitQuery \in 0..MaxLimit :
       LET user == Authenticate(token, EpochHours).user
       IN /\ listing' = Listing("likedByUsers", user, pageQuery, limitQuery)
          /\ lastStatus' = listing'.status
  /\ started' = started + 1
  /\ ListingFrame

NextListing == LikedUsersRoute \/ LikedByUsersRoute

\* the sequences of at most n different pairs of users
RECURSIVE EdgeLogs(_)
EdgeLogs(n) ==
  IF n = 0 THEN {<<>>}
  ELSE LET shorter == EdgeLogs(n - 1)
           fresh == {x \in shorter \X Pairs :
                       \A i \in 1..Len(x[1]) : x[1][i] # x[2]}
       IN shorter \cup {Append(x[1], x[2]) : x \in fresh}

\* The listings start from any likes the store may hold, with every user
\* present or the last user's account deleted.
InitListing ==
  /\ InitIdle
  /\ InitAccounts
  /\ mode = "listing"
  /\ workplaces = {} /\ nextPlaceId = 1
  /\ users \in {Users, Users \ {NumUsers}}
  /\ mig = NoMigration
  /\ likeLog \in EdgeLogs(MaxEdges)
  /\ likes = [e \in Pairs |->
                IF \E i \in 1..Len(likeLog) : likeLog[i] = e THEN 1 ELSE 0]
  /\ likedCount = [u \in Users |-> getLikeCount(likes, u)]
  /\ likedByCount = [u \in Users |-> getLikedByCount(likes, u)]

\* one listing request on any store
SpecListing == InitListing /\ [][NextListing]_vars

\* --------------------------------------------------------- migrateUserLikes
MigFrame == UNCHANGED <<users, workplaces, nextPlaceId, requests, lastStatus,
                        started, mode, hist, mw, identity, messages,
                        mailHist, placeHist, likeLog, listing>>

\* usersCollection.find({ $or: [{ likedUsers: array }, { likedByUsers:
\* array }] }).toArray(): the users the loop will go through
Migrate_find ==
  /\ mode = "migrate"
  /\ mig.pc = "start"
  /\ mig' = [mig EXCEPT !.pc = "nextUser", !.remaining = mig.present,
                        !.user = None, !.todo = {}, !.likedCount = 0]
  /\ UNCHANGED <<likes, likedCount, likedByCount>>
  /\ MigFrame

\* for (const user of usersWithLikes): let likedCount = 0, and the user's
\* likedUsers as read by the find; after the last user, the find of the
\* users without counts
Migrate_nextUser ==
  /\ mode = "migrate"
  /\ mig.pc = "nextUser"
  /\ IF mig.remaining = {}
     THEN mig' = [mig EXCEPT !.pc = "initCounts", !.user = None]
     ELSE \E u \in mig.remaining :
            mig' = [mig EXCEPT !.pc = "insert", !.user = u,
                               !.remaining = @ \ {u},
                               !.todo = mig.likedUsers[u],
                               !.likedCount = 0]
  /\ UNCHANGED <<likes, likedCount, likedByCount>>
  /\ MigFrame

\* await likesCollection.insertOne({ fromUserId, toUserId, createdAt });
\* likedCount++: under the unique index an edge that is there already makes
\* insertOne throw error 11000, which the catch skips
Migrate_insertOne ==
  /\ mode = "migrate"
  /\ mig.pc = "insert"
  /\ \E t \in mig.todo :
       IF likes[<<mig.user, t>>] = 0
       THEN /\ likes' = [likes EXCEPT ![<<mig.user, t>>] = 1]
            /\ mig' = [mig EXCEPT !.todo = @ \ {t}, !.likedCount = @ + 1]
       ELSE /\ UNCHANGED likes
            /\ mig' = [mig EXCEPT !.todo = @ \ {t}]
  /\ UNCHANGED <<likedCount, likedByCount>>
  /\ MigFrame

\* likedByCount = user.likedByUsers.length; await usersCollection.updateOne(
\* { _id }, { $set: { likedCount, likedByCount }, $unset: { likedUsers,
\* likedByUsers } })
Migrate_updateOne ==
  /\ mode = "migrate"
  /\ mig.pc = "insert"
  /\ mig.todo = {}
  /\ likedCount' = [likedCount EXCEPT ![mig.user] = mig.likedCount]
  /\ likedByCount' = [likedByCount EXCEPT
                        ![mig.user] = Cardinality(mig.likedByUsers[mig.user])]
  /\ mig' = [mig EXCEPT !.pc = "nextUser", !.present = @ \ {mig.user},
                        !.likedUsers[mig.user] = {},
                        !.likedByUsers[mig.user] = {}]
  /\ UNCHANGED likes
  /\ MigFrame

\* the users without likedCount or likedByCount get user.likedCount || 0
\* and user.likedByCount || 0: an absent counter is 0 here already; the
\* migration has completed
Migrate_initCounts ==
  /\ mode = "migrate"
  /\ mig.pc = "initCounts"
  /\ mig' = [mig EXCEPT !.pc = "done"]
  /\ UNCHANGED <<likes, likedCount, likedByCount>>
  /\ MigFrame

\* The run stops between two store calls (the process is killed, or a store
\* call rejects and the catch rethrows); the next start runs
\* migrateUserLikes from its beginning.
Migrate_stops ==
  /\ mode = "migrate"
  /\ mig.pc \in {"nextUser", "insert", "initCounts"}
  /\ mig.stops < MaxStops
  /\ mig' = [mig EXCEPT !.pc = "start", !.stops = @ + 1]
  /\ UNCHANGED <<likes, likedCount, likedByCount>>
  /\ MigFrame

NextMigrate ==
  \/ Migrate_find
  \/ Migrate_nextUser
  \/ Migrate_insertOne
  \/ Migrate_updateOne
  \/ Migrate_initCounts
  \/ Migrate_stops

\* The store before the first run: no like edges, counters absent, and
\* legacy arrays that agree with each other (B is in A's likedUsers exactly
\* when A is in B's likedByUsers); a user whose arrays are empty may have
\* them or not.
InitMigrate ==
  /\ InitIdle
  /\ InitAccounts
  /\ InitStores
  /\ likeLog = <<>>
  /\ mode = "migrate"
  /\ \E E \in SUBSET {e \in Pairs : e[1] # e[2]}, bare \in SUBSET Users :
       LET given == [u \in Users |-> {t \in Users : <<u, t>> \in E}]
           received == [u \in Users |-> {f \in Users : <<f, u>> \in E}]
       IN mig = [NoMigration EXCEPT
                   !.likedUsers = given,
                   !.likedByUsers = received,
                   !.present = {u \in Users : given[u] # {}
                                              \/ received[u] # {}}
                               \cup bare,
                   !.pc = "start"]

\* runs of migrateUserLikes until one completes
SpecMigrate == InitMigrate /\ [][NextMigrate]_vars

\* ----------------------------------------------------------------- claims
\* u's two counters equal the edges from u and to u
CountersMatch(u) == /\ likedCount[u] = getLikeCount(likes, u)
                    /\ likedByCount[u] = getLikedByCount(likes, u)

\* the request of route o, handled with no other request running, has been
\* answered
Answered(o) == mode = "seq" /\ Quiescent /\ hist.cur.op = o

\* the request before the answered one was like(A,B) answered 200
AfterLike(A, B) == hist.prevLike.user = A /\ hist.prevLike.target = B

\* C1: once every concurrent like and unlike request among users that all
\* still exist has been answered, each user's likedCount is the number of
\* edges from that user and likedByCount the number of edges to that user.
C1_CountersMatchAtQuiescence ==
  (Quiescent /\ users = Users) => \A u \in Users : CountersMatch(u)

\* two like requests for one pair raced; the loser was answered 500 last
C1_Witness ==
  /\ mode = "conc" /\ Quiescent /\ users = Users
  /\ started = 2 /\ lastStatus = 500
  /\ \E e \in Pairs : likes[e] = 1

\* C2: once every like, unlike and deleteAccount request has been answered,
\* each surviving user's counters equal that user's remaining edges.
C2_NoPermanentDivergence ==
  Quiescent => \A u \in users : CountersMatch(u)

\* C3: like(A,B) answered 200 and then unlike(A,B) answered 200, A # B, one
\* after the other: there was no edge before the like, the edge is gone and
\* A.likedCount and B.likedByCount are what they were before the like.
C3_LikeThenUnlikeRestores ==
  LET A == hist.cur.user
      B == hist.cur.target
  IN (/\ Answered("unlike") /\ hist.cur.status = 200
      /\ A # B /\ AfterLike(A, B))
     => /\ likes[<<A, B>>] = 0
        /\ likedCount[A] = hist.prevLike.likedCount[A]
        /\ likedByCount[B] = hist.prevLike.likedByCount[B]

\* unlike(A,B) right after like(A,B), while A also likes somebody else
C3_Witness ==
  LET A == hist.cur.user
      B == hist.cur.target
  IN /\ Answered("unlike") /\ hist.cur.status = 200
     /\ A # B /\ AfterLike(A, B)
     /\ likedCount[A] = 1

\* C4: like(A,B) arriving while the edge (A,B) exists is answered 400, adds
\* no edge and leaves every counter alone; after like(A,B) twice in a row
\* each of the two counters is one more than before the first.
C4_SecondLikeRejected ==
  LET A == hist.cur.user
      B == hist.cur.target
      pre == hist.cur.pre
  IN (Answered("like") /\ A # None /\ pre.likes[<<A, B>>] > 0)
     => /\ hist.cur.status = 400
        /\ likes = pre.likes
        /\ likedCount = pre.likedCount
        /\ likedByCount = pre.likedByCount
        /\ AfterLike(A, B)
           => /\ likedCount[A] = hist.prevLike.likedCount[A] + 1
              /\ likedByCount[B] = hist.prevLike.likedByCount[B] + 1
              /\ likes[<<A, B>>] = 1

\* like(A,B) answered 200, then like(A,B) again by the same user
C4_Witness ==
  LET A == hist.cur.user
      B == hist.cur.target
  IN /\ Answered("like") /\ A # None /\ A # B
     /\ AfterLike(A, B)

\* C5: unlike(A,B) arriving while no edge (A,B) exists is answered with an
\* error (400, or 404 when B is gone) and changes no edge and no counter; an
\* unlike answered 200 found the edge, removed it and took one off
\* A.likedCount and B.likedByCount.
C5_UnlikeWithoutEdgeRejected ==
  LET A == hist.cur.user
      B == hist.cur.target
      e == <<A, B>>
      pre == hist.cur.pre
  IN (Answered("unlike") /\ A # None)
     => /\ pre.likes[e] = 0
           => /\ hist.cur.status \in {400, 404}
              /\ likes = pre.likes
              /\ likedCount = pre.likedCount
              /\ likedByCount = pre.likedByCount
        /\ hist.cur.status = 200
           => /\ pre.likes[e] = 1
              /\ likes = [pre.likes EXCEPT ![e] = 0]
              /\ likedCount[A] = pre.likedCount[A] - 1
              /\ likedByCount[B] = pre.likedByCount[B] - 1

\* unlike of a user that exists and was never liked, while other edges exist
C5_Witness ==
  /\ Answered("unlike") /\ hist.cur.user # None /\ hist.cur.target \in users
  /\ hist.cur.pre.likes[<<hist.cur.user, hist.cur.target>>] = 0
  /\ hist.cur.pre.likes # NoLikes

C7_NoSelfLoop == \A u \in Users : likes[<<u, u>>] = 0

\* C8: deleteAccount(A) answered 200 with no other request running: no edge
\* touches A, each remaining user B lost one likedCount per removed edge
\* B->A and one likedByCount per removed edge A->B, and B's counters equal
\* B's remaining edges.
C8_CascadeKeepsCounters ==
  LET A == hist.cur.user
      pre == hist.cur.pre
  IN (Answered("delete") /\ hist.cur.status = 200)
     => /\ \A u \in Users : likes[<<A, u>>] = 0 /\ likes[<<u, A>>] = 0
        /\ \A B \in users :
             /\ likedCount[B] = pre.likedCount[B] - pre.likes[<<B, A>>]
             /\ likedByCount[B] = pre.likedByCount[B] - pre.likes[<<A, B>>]
             /\ CountersMatch(B)

\* the deleted user had liked a user and was liked by that user
C8_Witness ==
  /\ Answered("delete") /\ hist.cur.status = 200
  /\ \E B \in users : /\ hist.cur.pre.likes[<<hist.cur.user, B>>] > 0
                      /\ hist.cur.pre.likes[<<B, hist.cur.user>>] > 0

C10_DeletedUserIsAnonymous ==
  /\ (Answered("delete") /\ hist.cur.status = 200)
     => /\ UserModel_findById(hist.cur.user) = None
        /\ hist.cur.resCookie = "cleared"
  /\ (/\ mode = "seq" /\ hist.cur.cookie # None
      /\ hist.cur.cookie \notin hist.cur.pre.users)
     => /\ hist.cur.user = None
        /\ hist.cur.resCookie = "none"
        /\ hist.cur.op # "createWorkPlace"
           => Quiescent /\ hist.cur.status = 401

\* a like or unlike that carries the token of a deleted user was answered
C10_Witness ==
  /\ mode = "seq" /\ hist.cur.cookie # None
  /\ hist.cur.cookie \notin hist.cur.pre.users
  /\ hist.cur.op \in {"like", "unlike"} /\ lastStatus = 401

\* C11: once every like, createWorkPlace and deleteAccount request has been
\* answered, every like edge joins two existing users and every work place
\* belongs to an existing user.
C11_NoOrphanChildren ==
  Quiescent => /\ \A e \in Pairs :
                    likes[e] > 0 => e[1] \in users /\ e[2] \in users
               /\ \A w \in workplaces : w.userId \in users

\* C20: in every reachable state every existing user's likedCount and
\* likedByCount are at least 0.
C20_CountersNonNegative ==
  \A u \in users : likedCount[u] >= 0 /\ likedByCount[u] >= 0

\* C12: deleteAccount(A) that failed, with no other request running: when
\* A's user document is still there, no work place and no like edge has
\* been removed and no counter has been decremented.
C12_FailedCascadeKeepsChildren ==
  LET pre == hist.cur.pre
  IN (/\ Answered("delete") /\ hist.cur.status = 500
      /\ hist.cur.user \in users)
     => /\ workplaces = pre.workplaces
        /\ likes = pre.likes
        /\ likedCount = pre.likedCount
        /\ likedByCount = pre.likedByCount

\* the request received last carried a token this service issued for a user
\* that exists
ValidTokenOfUser ==
  /\ mode = "auth" /\ started > 0
  /\ mw.token.kind = "signed" /\ mw.token.userId \in mw.users

\* milliseconds between the issue of the token received last and its request
TokenAge == Date_now(mw.hour) - mw.token.iat

\* C13: a request with a valid token of an existing user is authenticated as
\* that user; the response sets a token exactly when the token's age is at
\* most two hours, and that token names the same user with iat = now.
C13_RenewedWithinTwoHours ==
  ValidTokenOfUser
  => /\ mw.did.user = mw.token.userId
     /\ mw.did.setCookie # NoToken <=> TokenAge <= 2 * 60 * 60 * 1000
     /\ mw.did.setCookie # NoToken
        => /\ mw.did.setCookie.userId = mw.token.userId
           /\ mw.did.setCookie.iat = Date_now(mw.hour)

\* a token presented exactly two hours after its issue was renewed
C13_Witness ==
  /\ ValidTokenOfUser /\ TokenAge = 2 * 60 * 60 * 1000
  /\ mw.did.setCookie # NoToken /\ Quiescent

\* C14: a token presented more than 24 hours after the iat it carries is not
\* accepted: the request runs without req.user.
C14_RejectedAfter24Hours ==
  (/\ mode = "auth" /\ started > 0 /\ mw.token.kind = "signed"
   /\ TokenAge > 24 * 60 * 60 * 1000)
  => mw.did.user = None

\* C15: authenticateJWT calls next() once and sends no response; without a
\* token, with a malformed, badly signed or expired one, or with one naming
\* a user that is gone, the request has no req.user and isAuthenticated() is
\* false; otherwise req.user is the user the token names.
C15_MiddlewareNeverFails ==
  (mode = "auth" /\ started > 0)
  => /\ mw.did.nextCalls = 1
     /\ mw.did.status = 0
     /\ IF mw.token.kind = "signed" /\ mw.token.userId \in mw.users
        THEN mw.did.user = mw.token.userId /\ mw.did.isAuthenticated
        ELSE mw.did.user = None /\ ~mw.did.isAuthenticated

\* a request with a badly signed token went on to its route and was
\* answered 401 there
C15_Witness ==
  /\ mode = "auth" /\ started > 0 /\ Quiescent
  /\ mw.token.kind = "badSignature" /\ lastStatus = 401

\* the join or login request handled with no other request running has
\* been answered
LoginDone(ops) ==
  mode = "loginSeq" /\ Quiescent /\ idHist.op \in ops /\ idHist.status # 0

C17_EmailsUnique ==
  \A u, v \in users : u # v => accounts[u].email # accounts[v].email

\* C18 as stated: a login whose provider id matches an account ends with
\* that account, creates no user and changes nothing but the account's
\* lastLoginAt.
C18_OnlyLastLoginAtChanges ==
  (LoginDone({"github", "google"}) /\ ProviderMatches # {})
  => /\ idHist.user \in ProviderMatches
     /\ users = idHist.pre.users
     /\ accounts = [idHist.pre.accounts EXCEPT
                      ![idHist.user].lastLoginAt = Now]

\* C18 as amended: a login whose provider id matches an account ends with
\* that account, creates no user and changes nothing but the account's
\* lastLoginAt and updatedAt, also when the profile's email is another
\* account's.
C18_OnlyLoginTimestampsChange ==
  (LoginDone({"github", "google"}) /\ ProviderMatches # {})
  => /\ idHist.user \in ProviderMatches
     /\ users = idHist.pre.users
     /\ accounts = [idHist.pre.accounts EXCEPT
                      ![idHist.user].lastLoginAt = Now,
                      ![idHist.user].updatedAt = Now]

\* the profile's id is one account's and its email another's, and its
\* avatar is not that account's
C18_Witness ==
  /\ LoginDone({"github", "google"}) /\ ProviderMatches # {}
  /\ EmailMatches # {} /\ EmailMatches \cap ProviderMatches = {}
  /\ idHist.avatar # idHist.pre.accounts[idHist.user].profileImage

\* C19: a login whose provider id matches no account and whose email
\* matches one ends with that account, which now carries the provider id
\* and the avatar; no user is created, the account's email, name and like
\* counters and every other account are as before.
C19_ProviderAttachedToEmailAccount ==
  LET u == idHist.user
      pre == idHist.pre
  IN (/\ LoginDone({"github", "google"}) /\ ProviderMatches = {}
      /\ EmailMatches # {})
     => /\ u \in EmailMatches
        /\ users = pre.users
        /\ IF idHist.op = "github" THEN accounts[u].githubId = idHist.pid
           ELSE accounts[u].googleId = idHist.pid
        /\ accounts[u].profileImage = idHist.avatar
        /\ accounts[u].email = pre.accounts[u].email
        /\ accounts[u].name = pre.accounts[u].name
        /\ likedCount = pre.likedCount /\ likedByCount = pre.likedByCount
        /\ \A v \in Users \ {u} : accounts[v] = pre.accounts[v]

\* the account that gets the provider id has a name other than the
\* profile's and has been liked
C19_Witness ==
  /\ LoginDone({"github", "google"}) /\ ProviderMatches = {}
  /\ EmailMatches # {}
  /\ idHist.name # idHist.pre.accounts[idHist.user].name
  /\ likedByCount[idHist.user] > 0

\* C21: a request that runs without req.user is answered 401 and leaves the
\* users, counters, like edges and work places as they were.
C21_AnonymousGets401 ==
  (mode = "seq" /\ hist.cur.op # "none" /\ hist.cur.user = None)
  => /\ Quiescent
     /\ hist.cur.status = 401
     /\ Snapshot = hist.cur.pre

\* the message request of kind o received last has been answered
MailDone(o) ==
  mode = "mail" /\ Quiescent /\ mailHist.op = o /\ mailHist.status # 0

\* the message the request received last named, as it was on arrival
Named ==
  IF \E m \in mailHist.pre : m.id = mailHist.id
  THEN CHOOSE m \in mailHist.pre : m.id = mailHist.id
  ELSE NoMessage

\* C22: a send by a user, with subject, content and a valid target id, stores
\* one new message and answers 201 exactly when the target exists and is not
\* the sender; otherwise it answers an error and stores nothing; no stored
\* message has fromUserId equal to targetUserId.
C22_SendStoresIffOtherExistingTarget ==
  /\ \A m \in messages : m.fromUserId # m.targetUserId
  /\ (MailDone("send") /\ mailHist.user # None /\ mailHist.wellFormed)
     => LET to == ObjectId(mailHist.target)
        IN IF to \in users /\ to # mailHist.user
           THEN /\ mailHist.status = 201
                /\ mailHist.body \notin mailHist.pre
                /\ messages = mailHist.pre \cup {mailHist.body}
           ELSE /\ mailHist.status >= 400
                /\ messages = mailHist.pre

\* C23: a markRead by a user other than the message's target (the sender
\* too) is answered 403 and the message stays as it was; a markRead changes
\* no message but the one it names.
C23_OnlyTargetMarksRead ==
  (MailDone("markRead") /\ mailHist.user # None /\ Named # NoMessage)
  => /\ mailHist.user # Named.targetUserId
        => mailHist.status = 403 /\ messages = mailHist.pre
     /\ messages \ {m \in messages : m.id = Named.id}
          = mailHist.pre \ {Named}

\* the sender of a message asked to mark it read and was answered
C23_Witness ==
  /\ MailDone("markRead") /\ Named # NoMessage
  /\ mailHist.user = Named.fromUserId
  /\ mailHist.user # Named.targetUserId

\* C24: a getById of an existing message by its sender or its target
\* answers the message; by any other user it answers 403 without the
\* message.
C24_OnlyPartiesReadMessage ==
  (MailDone("getById") /\ mailHist.user # None /\ Named # NoMessage)
  => IF mailHist.user \in {Named.fromUserId, Named.targetUserId}
     THEN mailHist.status = 200 /\ mailHist.body = Named
     ELSE mailHist.status = 403 /\ mailHist.body = NoMessage

\* a user who is neither sender nor target asked for a message and was
\* answered
C24_Witness ==
  /\ MailDone("getById") /\ mailHist.user # None /\ Named # NoMessage
  /\ mailHist.user \notin {Named.fromUserId, Named.targetUserId}

\* C25: whatever request ran, a message that was read is still read, and
\* fromUserId, targetUserId, subject, content and toUserEmail of every
\* message are what they were; a new message carries the email its target
\* had when it was sent.
C25_ReadStaysReadFieldsStay ==
  mode = "mail"
  => /\ \A m \in mailHist.pre : \E n \in messages :
          /\ n.id = m.id
          /\ m.isRead => n.isRead
          /\ n.fromUserId = m.fromUserId
          /\ n.targetUserId = m.targetUserId
          /\ n.subject = m.subject
          /\ n.content = m.content
          /\ n.toUserEmail = m.toUserEmail
     /\ \A n \in messages \ mailHist.pre :
          (\A m \in mailHist.pre : m.id # n.id)
          => /\ ~n.isRead
             /\ n.toUserEmail = accounts[n.targetUserId].email

\* a message that was read already was marked read again
C25_Witness ==
  /\ MailDone("markRead") /\ mailHist.status = 200
  /\ Named.isRead
  /\ \E n \in messages : n.id = Named.id /\ n.isRead

\* C29: MessageModel.deleteByUserId(U) leaves every message of another
\* sender in the store.
C29_OtherSendersMessagesStay ==
  (mode = "mail" /\ mailHist.op = "deleteByUserId")
  => \A m \in mailHist.pre : m.fromUserId # mailHist.user => m \in messages

\* the work place the request received last named, as it was on arrival
NamedPlace ==
  IF \E w \in placeHist.pre : w.id = placeHist.id
  THEN CHOOSE w \in placeHist.pre : w.id = placeHist.id
  ELSE NoPlace

\* the request to delete a work place received last has been answered
PlaceDeleteDone ==
  /\ mode = "places" /\ Quiescent /\ placeHist.op = "deleteWorkPlace"
  /\ placeHist.user # None /\ placeHist.wellFormed

\* C26: a delete of a work place by its owner removes it and nothing else;
\* by another user it is answered 403 and the place stays; for an id of no
\* work place it is answered 404 and nothing changes.
C26_OnlyOwnerDeletesPlace ==
  PlaceDeleteDone
  => IF NamedPlace = NoPlace
     THEN lastStatus = 404 /\ workplaces = placeHist.pre
     ELSE IF NamedPlace.userId = placeHist.user
     THEN lastStatus = 200 /\ workplaces = placeHist.pre \ {NamedPlace}
     ELSE lastStatus = 403 /\ workplaces = placeHist.pre

\* a user asked to delete the work place of another user and was answered
C26_Witness ==
  /\ PlaceDeleteDone /\ NamedPlace # NoPlace
  /\ NamedPlace.userId # placeHist.user

\* numbers of the edges of the listing's user in likeLog: given (stored
\* with the user as fromUserId) for likedUsers, received for likedByUsers
Mine == IF listing.op = "likedUsers" THEN 1 ELSE 2

Theirs == IF listing.op = "likedUsers" THEN 2 ELSE 1

OwnEdges == {i \in 1..Len(likeLog) : likeLog[i][Mine] = listing.user}

\* position of edge i among the user's edges, newest first, from 0
Position(i) == Cardinality({j \in OwnEdges : j > i})

\* the edges of the requested page whose counterpart has a user document
PageEdges ==
  {i \in OwnEdges :
     /\ Position(i) >= (listing.page - 1) * listing.limit
     /\ Position(i) <= listing.page * listing.limit - 1
     /\ likeLog[i][Theirs] \in users}

\* C27: for page >= 1 and limit >= 1 the listing holds, newest edge first,
\* the counterparts of the user's edges at the positions (page-1)*limit to
\* page*limit-1 (an edge whose counterpart has no user document has no
\* profile to show), and hasMore says that as many users as limit came back.
C27_PageOfCounterparts ==
  (/\ mode = "listing" /\ listing.status = 200
   /\ listing.page >= 1 /\ listing.limit >= 1)
  => /\ Len(listing.users) = Cardinality(PageEdges)
     /\ \A i \in PageEdges :
          listing.users[1 + Cardinality({j \in PageEdges : j > i})]
            = likeLog[i][Theirs]
     /\ listing.hasMore <=> Len(listing.users) = listing.limit

\* a page after the first came back with a user on it
C27_Witness ==
  /\ mode = "listing" /\ listing.status = 200
  /\ listing.page >= 2 /\ listing.limit >= 1
  /\ listing.users # <<>>

\* C30: when a run of migrateUserLikes has completed, also after a run that
\* was cut short, every user's likedCount is the number of edges from that
\* user and likedByCount the number of edges to that user.
C30_MigratedCountersMatch ==
  (mode = "migrate" /\ mig.pc = "done") => \A u \in Users : CountersMatch(u)

\* C28: two OAuth logins, one after the other, with different provider ids
\* that match no account, each with an email that is absent or matches no
\* account when it arrives, end with two different users: the second one
\* gets a new user document.
C28_TwoNewProfilesTwoUsers ==
  (/\ mode = "loginPair" /\ Quiescent
   /\ idHist.first.fresh
   /\ idHist.op \in {"github", "google"} /\ idHist.status = 200
   /\ idHist.pid # idHist.first.pid
   /\ ProviderMatches = {}
   /\ idHist.email = NoEmail \/ EmailMatches = {})
  => /\ idHist.user # idHist.first.user
     /\ idHist.user \notin idHist.pre.users

====
